---- MODULE Spec2Model ----
(***************************************************************************)
(* A model of the Figgie game server: the game engine of                   *)
(* src/src/backend/game_logic.py (deal, order book, matching, settlement)  *)
(* driven through the command dispatcher of                                *)
(* src/src/backend/websocket_game.py.                                      *)
(*                                                                         *)
(* Player ids are the integers 1..max_players; the empty string that       *)
(* SampleRecord uses for "no owner" is EmptyId.  A Python dict is a        *)
(* function whose DOMAIN is the dict's key set, so a lookup of a missing   *)
(* key (KeyError) is a test on DOMAIN.                                     *)
(***************************************************************************)
EXTENDS Integers, Sequences, FiniteSets, TLC

(***************************************************************************)
(* Bounds of the model.                                                    *)
(***************************************************************************)
\* WebSocketGame(max_players): the capacity of the game.
max_players == 2
\* How many place_order / accept_order commands a behaviour holds.
MaxCommands == 4
\* WebSocketGame(timer_max): the ticks of the main countdown.
timer_max == 2
\* How many pre-game countdowns a behaviour of Session holds.
MaxGames == 2
\* How many events a behaviour of Bus emits.
MaxEvents == 3
\* How many players the deals of Deal serve.
MaxDealt == 3

(***************************************************************************)
(* Program constants (classes.py).                                         *)
(***************************************************************************)
timer_countdown == 10
cash_per_player == 400
cash_to_enter == 50
\* SampleRecord's defaults: price, player_id ("") and order_id.
NoPrice == -1
EmptyId == 0
NoOrderId == -1
\* The count get_suit_distribution gives the goal suit's same-colour partner.
PartnerCount == 12

suits == <<"hearts", "diamonds", "clubs", "spades">>
Suits == {suits[i] : i \in 1..Len(suits)}
suit2colors == [s \in Suits |-> IF s \in {"hearts", "diamonds"} THEN "red" ELSE "black"]
color2suits == [c \in {"red", "black"} |->
                  IF c = "red" THEN <<"hearts", "diamonds">> ELSE <<"clubs", "spades">>]
Ids == 1..max_players
\* The clients that connect: one more than the game has room for.
Clients == 1..(max_players + 1)
\* WebSocketGame.ui_connections: one observer channel, open from the start.
ui_connections == <<-1>>
\* The channels messages are sent on: the connections and the observers.
Channels == Clients \cup {ui_connections[i] : i \in 1..Len(ui_connections)}
\* The sleeps (and broadcasts) of pre_game_countdown: range(3, 0, -1).
PreGameSteps == 3

(***************************************************************************)
(* Inputs of the commands, and the outcomes of the random draws of the     *)
(* deal that the model follows.                                            *)
(***************************************************************************)
\* Prices of place_order: the sentinel, two affordable prices, and one above
\* every player's cash.
Prices == {-1, 5, 10, 400}
\* The player_id of the orders.
Traders == {1, 2}
\* Suits named by place_order / accept_order.
OrderSuits == {"hearts", "diamonds"}
\* random.choice of get_goal_suit.
GoalSuitDraws == {"hearts"}
\* random.choice(Constants.goal_suit_counts), of [8, 10].
GoalCountDraws == {8}
\* The two random.shuffle calls of get_suit_distribution: whether the pair is
\* swapped.
SwapDraws == {FALSE}
\* random.shuffle(all_cards): the deck stacked for n players and cut at `cut`
\* (n = 0 stands for the number of joined players), see shuffle.
ShuffleDraws == {[n |-> 0, cut |-> 7], [n |-> 1, cut |-> 0]}

VARIABLES
    players,            \* Game.players: the ids joined, in dict (join) order
    ready,              \* the ids whose Player.ready is True
    connections,        \* WebSocketGame.connections: the ids with a channel
    busy,               \* the handlers inside pre_game_countdown: connection ->
                        \* the value of i its next broadcast announces
    closed,             \* the clients whose websocket has closed
    started,            \* GameState.started
    countdown,          \* GameState.countdown
    goal_suit,          \* GameState.goal_suit
    player2cards,       \* GameState.player2cards
    player2card_count,  \* GameState.player2card_count
    player2cash,        \* GameState.player2cash
    bids,               \* GameState.orderbook.bids
    asks,               \* GameState.orderbook.asks
    last,               \* the command handled last, and how it ended
    ncmd,               \* place_order / accept_order commands handled so far
    hand_order,         \* the keys of player2cards in the dict's order
    timers,             \* the countdown tasks asleep in the loop of Game.countdown
    countdown_task,     \* Game.countdown_task: a task of timers, or 0 (None)
    emitted,            \* how often pre_game_countdown was entered and
                        \* game_started / game_ended were emitted
    sent,               \* the messages the last step sent, in sending order
    tasks,              \* the handler tasks emit_event created, in creation order
    inbox,              \* per channel, the messages received, in order of arrival
    deal_suit2counts,   \* deal_cards: its local suit2counts, as the items of the dict
    deal_all_cards      \* deal_cards: its local all_cards, the shuffled deck

game_vars == <<started, countdown, goal_suit, player2cards, player2card_count,
               player2cash, hand_order, timers, countdown_task>>
book_vars == <<bids, asks>>
lobby_vars == <<players, ready, connections, busy, closed>>
bus_vars == <<tasks, inbox>>
deck_vars == <<deal_suit2counts, deal_all_cards>>

vars == <<players, ready, connections, busy, closed, started, countdown, goal_suit,
          player2cards, player2card_count, player2cash, bids, asks, last, ncmd,
          hand_order, timers, countdown_task, emitted, sent, tasks, inbox,
          deal_suit2counts, deal_all_cards>>

(***************************************************************************)
(* Helpers for Python containers.                                          *)
(***************************************************************************)
\* The empty dict.
EmptyDict == [k \in {} |-> 0]

RECURSIVE SumOver(_, _)
\* sum(d.values()) restricted to the keys in S.
SumOver(d, S) ==
    IF S = {} THEN 0
    ELSE LET k == CHOOSE x \in S : TRUE IN d[k] + SumOver(d, S \ {k})

\* sum(d.values())
Sum(d) == SumOver(d, DOMAIN d)

\* The elements of a sequence.
Range(seq) == {seq[i] : i \in 1..Len(seq)}

\* list.count(x)
Count(seq, x) == Cardinality({i \in 1..Len(seq) : seq[i] = x})

(***************************************************************************)
(* The deal: Game.get_suit_distribution, create_deck, distribute_cards,    *)
(* initialize_player_cash.                                                 *)
(***************************************************************************)
SampleRecord == [price |-> NoPrice, player_id |-> EmptyId, order_id |-> NoOrderId]

\* OrderBook(): every suit's bid and ask is the empty SampleRecord.
EmptyBook == [s \in Suits |-> SampleRecord]

\* A distribution that gives every suit ten cards.
get_suit_distribution_even(goal, goal_count, swap_suits, swap_counts) ==
    [i \in 1..Len(suits) |-> [suit |-> suits[i], count |-> 10]]

\* get_suit_distribution: the dict as its items in insertion order.  swap_suits
\* and swap_counts are the outcomes of the two random.shuffle calls on the
\* two-element lists.
get_suit_distribution(goal, goal_count, swap_suits, swap_counts) ==
    LET same_color_other_suit ==
            CHOOSE s \in Range(color2suits[suit2colors[goal]]) : s # goal
        remaining == SelectSeq(suits, LAMBDA s : s \notin {goal, same_color_other_suit})
        remaining_suits == IF swap_suits THEN <<remaining[2], remaining[1]>> ELSE remaining
        counts == IF goal_count = 8 THEN <<10, 10>> ELSE <<8, 10>>
        remaining_counts == IF swap_counts THEN <<counts[2], counts[1]>> ELSE counts
    IN  << [suit |-> goal, count |-> goal_count],
           [suit |-> same_color_other_suit, count |-> PartnerCount],
           [suit |-> remaining_suits[1], count |-> remaining_counts[1]],
           [suit |-> remaining_suits[2], count |-> remaining_counts[2]] >>

RECURSIVE Expand(_)
\* [suit for suit, count in suit2counts.items() for _ in range(count)]
Expand(suit2counts) ==
    IF suit2counts = <<>> THEN <<>>
    ELSE [i \in 1..Head(suit2counts).count |-> Head(suit2counts).suit]
         \o Expand(Tail(suit2counts))

\* One outcome of random.shuffle(all_cards): the deck stacked for n players and
\* cut at `cut`, so that the player dealt the i-th of every n cards receives a
\* run of consecutive cards of the unshuffled deck.  n = 1 is a plain cut.
shuffle(cards, n, cut) ==
    LET L == Len(cards)
        size(r) == (L - r + n - 1) \div n
        start[r \in 0..(n - 1)] == IF r = 0 THEN 0 ELSE start[r - 1] + size(r - 1)
    IN  [j \in 1..L |->
            cards[((start[(j - 1) % n] + ((j - 1) \div n) + cut) % L) + 1]]

\* create_deck
create_deck(suit2counts, n, cut) == shuffle(Expand(suit2counts), n, cut)

\* A slice that takes the i-th block of len(all_cards) // n cards.
Slice_block(all_cards, i, n) ==
    [k \in 1..(Len(all_cards) \div n) |-> all_cards[i * (Len(all_cards) \div n) + k]]

\* all_cards[i::n], i counted from 0
Slice(all_cards, i, n) ==
    LET idx == {j \in 1..Len(all_cards) : (j - 1) % n = i}
    IN  [k \in 1..Cardinality(idx) |-> all_cards[i + 1 + (k - 1) * n]]

\* distribute_cards: a hand holds a key only for the suits its player received.
distribute_cards(all_cards, ps) ==
    LET n == Len(ps)
        player2cards_list(pid) ==
            Slice(all_cards, (CHOOSE i \in 1..n : ps[i] = pid) - 1, n)
    IN  [pid \in Range(ps) |->
            CHOOSE hand \in {[s \in Range(cards) |-> Count(cards, s)] :
                                cards \in {player2cards_list(pid)}} : TRUE]

\* The players dicts a deal may find: distinct clients in join order.
Games ==
    UNION {{ps \in [1..n -> Clients] : \A i, j \in 1..n : ps[i] = ps[j] => i = j} :
              n \in 0..Cardinality(Clients)}

\* deal_cards, lines 84-87: the hands dealt to the players ps, for every outcome
\* d = <<goal, goal_count, swap_suits, swap_counts, shuf>> of the random draws.
Hands ==
    [d \in GoalSuitDraws \X GoalCountDraws \X SwapDraws \X SwapDraws \X ShuffleDraws,
     ps \in Games |->
        LET suit2counts == get_suit_distribution(d[1], d[2], d[3], d[4])
        IN  CHOOSE hands \in
                {distribute_cards(all_cards, ps) :
                    all_cards \in {create_deck(suit2counts,
                                               IF d[5].n # 0 THEN d[5].n
                                               ELSE IF ps = <<>> THEN 1 ELSE Len(ps),
                                               d[5].cut)}} : TRUE]

\* initialize_player_cash
initialize_player_cash(ps) ==
    [pid \in Range(ps) |-> cash_per_player - cash_to_enter]

(***************************************************************************)
(* Settlement and the order book: Game.execute_trade, process_add_order,   *)
(* process_accept_order.  G is the part of GameState a command reads and   *)
(* writes: [player2cards, player2card_count, player2cash, bids, asks].     *)
(* Every operation yields [G, raised, ret]: the state it leaves, whether   *)
(* it ended by raising (a KeyError), and what it returned otherwise.  The  *)
(* statements are applied in the order of the source, so an exception      *)
(* leaves the writes made before it.                                       *)
(***************************************************************************)
Done(G, ret) == [G |-> G, raised |-> FALSE, ret |-> ret]
Raise(G) == [G |-> G, raised |-> TRUE, ret |-> "KeyError"]

\* Whether player2cards[pid][suit] can be read.
HasCard(G, pid, suit) ==
    pid \in DOMAIN G.player2cards /\ suit \in DOMAIN G.player2cards[pid]

\* The record process_add_order puts in the book.
NewRecord(order) == [price |-> order.price, player_id |-> order.player_id, order_id |-> 1]

\* A settlement that credits the seller and forgets to debit the buyer.
trade_cash_credit_only(cash, buyer_id, seller_id, price) ==
    [cash EXCEPT ![seller_id] = @ + price]

\* execute_trade, lines 159-160: the two cash writes.
trade_cash(cash, buyer_id, seller_id, price) ==
    LET c1 == [cash EXCEPT ![seller_id] = @ + price]
    IN  [c1 EXCEPT ![buyer_id] = @ - price]

\* A reset that empties the book of every suit.
reset_orderbook_all(G, suit) == [G EXCEPT !.bids = EmptyBook, !.asks = EmptyBook]

\* execute_trade, lines 167-168, and process_accept_order, lines 254-255: the
\* suit's bid and ask become the empty SampleRecord.
reset_orderbook(G, suit) ==
    [G EXCEPT !.bids[suit] = SampleRecord, !.asks[suit] = SampleRecord]

execute_trade(G, buyer_id, seller_id, suit, price) ==
    IF ~HasCard(G, seller_id, suit) THEN Raise(G)
    ELSE IF G.player2cards[seller_id][suit] <= 0
    THEN Done(G, "Trade not executed, seller does not have enough cards")
    ELSE IF buyer_id \notin DOMAIN G.player2cash THEN Raise(G)
    ELSE IF G.player2cash[buyer_id] < price
    THEN Done(G, "Trade not executed, buyer does not have enough cash")
    ELSE IF seller_id \notin DOMAIN G.player2cash THEN Raise(G)
    ELSE
    LET G1 == [G EXCEPT !.player2cash = trade_cash(@, buyer_id, seller_id, price)]
        G2 == [G1 EXCEPT !.player2cards[seller_id][suit] = @ - 1]
    IN  IF ~HasCard(G2, buyer_id, suit) THEN Raise(G2)
        ELSE
        LET G3 == [G2 EXCEPT !.player2cards[buyer_id][suit] = @ + 1]
        IN  IF seller_id \notin DOMAIN G3.player2card_count THEN Raise(G3)
            ELSE
            LET G4 == [G3 EXCEPT !.player2card_count[seller_id] = @ - 1]
            IN  IF buyer_id \notin DOMAIN G4.player2card_count THEN Raise(G4)
                ELSE
                LET G5 == [G4 EXCEPT !.player2card_count[buyer_id] = @ + 1]
                    G6 == reset_orderbook(G5, suit)
                IN  Done(G6, "Trade executed successfully")

\* A bid that is never matched against the resting ask.
bid_never_crosses(order, current_ask) == FALSE

\* process_add_order, line 113: the bid meets the resting ask.
bid_crosses(order, current_ask) ==
    current_ask.price # -1 /\ order.price >= current_ask.price

\* An ask that is never matched against the resting bid.
ask_never_crosses(order, current_bid) == FALSE

\* process_add_order, line 132: the ask meets the resting bid.
ask_crosses(order, current_bid) ==
    current_bid.price # -1 /\ order.price <= current_bid.price

\* A bid that replaces the resting bid at an equal price too.
bid_improves_or_equals(order, current_bid) == order.price >= current_bid.price

\* process_add_order, line 124: the bid replaces the resting bid.
bid_improves(order, current_bid) == order.price > current_bid.price

\* process_add_order, line 140: the ask replaces the resting ask.
ask_improves(order, current_ask) ==
    current_ask.price = -1 \/ order.price < current_ask.price

\* The price process_add_order hands to execute_trade for a crossing ask
\* (line 135).
ask_trade_price(order, current_bid) == order.price

\* The price process_add_order hands to execute_trade for a crossing bid
\* (line 119).
bid_trade_price(order, current_ask) == current_ask.price

\* process_add_order.  ret is the message of add_order_processed; trade is what
\* execute_trade returned ("" when it was not called) and placed whether the
\* order was written into the book.
process_add_order(G, order) ==
    LET out(r, trade, placed) == [G |-> r.G, raised |-> r.raised, ret |-> r.ret,
                                  trade |-> trade, placed |-> placed]
    IN
    IF order.suit \notin DOMAIN G.asks THEN out(Raise(G), "", FALSE)
    ELSE IF order.is_bid
    THEN LET current_ask == G.asks[order.suit]
             current_bid == G.bids[order.suit]
         IN  IF bid_crosses(order, current_ask)
             THEN LET t == execute_trade(G, order.player_id, current_ask.player_id,
                                         order.suit, bid_trade_price(order, current_ask))
                  IN  IF t.raised THEN out(t, t.ret, FALSE)
                      ELSE out(Done(t.G, "Order matched and executed"), t.ret, FALSE)
             ELSE IF bid_improves(order, current_bid)
                  THEN out(Done([G EXCEPT !.bids[order.suit] = NewRecord(order)],
                                "Order added"), "", TRUE)
                  ELSE out(Done(G, "Order added"), "", FALSE)
    ELSE LET current_bid == G.bids[order.suit]
             current_ask == G.asks[order.suit]
         IN  IF ask_crosses(order, current_bid)
             THEN LET t == execute_trade(G, current_bid.player_id, order.player_id,
                                         order.suit, ask_trade_price(order, current_bid))
                  IN  IF t.raised THEN out(t, t.ret, FALSE)
                      ELSE out(Done(t.G, "Order matched and executed"), t.ret, FALSE)
             ELSE IF ask_improves(order, current_ask)
                  THEN out(Done([G EXCEPT !.asks[order.suit] = NewRecord(order)],
                                "Order added"), "", TRUE)
                  ELSE out(Done(G, "Order added"), "", FALSE)

\* An accept without the self-trade check.
own_order_unchecked(seller_id, buyer_id) == FALSE

\* process_accept_order, lines 195 and 226: the caller owns the resting order.
own_order(seller_id, buyer_id) == seller_id = buyer_id

\* An accept without the check of the buyer's cash.
buyer_short_unchecked(cash, buyer_id, price) == FALSE

\* process_accept_order, lines 199 and 230: the buyer cannot pay.
buyer_short(cash, buyer_id, price) == cash[buyer_id] < price

\* process_accept_order, lines 189-219: accepting the resting bid.
accept_bid(G, order) ==
    LET current_bid == G.bids[order.suit]
        seller_id == order.player_id
        buyer_id == current_bid.player_id
        price == current_bid.price
    IN
    IF own_order(seller_id, buyer_id)
    THEN Done(G, "Order not accepted, cannot accept own bid")
    ELSE IF ~HasCard(G, seller_id, order.suit) THEN Raise(G)
    ELSE IF G.player2cards[seller_id][order.suit] <= 0
    THEN Done(G, "Order not accepted, seller does not have enough cards")
    ELSE IF buyer_id \notin DOMAIN G.player2cash THEN Raise(G)
    ELSE IF buyer_short(G.player2cash, buyer_id, price)
    THEN Done(G, "Order not accepted, buyer does not have enough cash")
    ELSE IF seller_id \notin DOMAIN G.player2cash THEN Raise(G)
    ELSE
    LET G1 == [G EXCEPT !.player2cash[seller_id] = @ + price]
        G2 == [G1 EXCEPT !.player2cash[buyer_id] = @ - price]
        G3 == [G2 EXCEPT !.player2cards[seller_id][order.suit] = @ - 1]
    IN  IF ~HasCard(G3, buyer_id, order.suit) THEN Raise(G3)
        ELSE
        LET G4 == [G3 EXCEPT !.player2cards[buyer_id][order.suit] = @ + 1]
        IN  IF seller_id \notin DOMAIN G4.player2card_count THEN Raise(G4)
            ELSE
            LET G5 == [G4 EXCEPT !.player2card_count[seller_id] = @ - 1]
            IN  IF buyer_id \notin DOMAIN G5.player2card_count THEN Raise(G5)
                ELSE Done([G5 EXCEPT !.player2card_count[buyer_id] = @ + 1],
                          "Order accepted")

\* process_accept_order, lines 220-250: accepting the resting ask.
accept_ask(G, order) ==
    LET current_ask == G.asks[order.suit]
        buyer_id == order.player_id
        seller_id == current_ask.player_id
        price == current_ask.price
    IN
    IF own_order(buyer_id, seller_id)
    THEN Done(G, "Order not accepted, cannot accept own ask")
    ELSE IF ~HasCard(G, seller_id, order.suit) THEN Raise(G)
    ELSE IF G.player2cards[seller_id][order.suit] <= 0
    THEN Done(G, "Order not accepted, seller does not have enough cards")
    ELSE IF buyer_id \notin DOMAIN G.player2cash THEN Raise(G)
    ELSE IF buyer_short(G.player2cash, buyer_id, price)
    THEN Done(G, "Order not accepted, buyer does not have enough cash")
    ELSE
    LET G1 == [G EXCEPT !.player2cash[buyer_id] = @ - price]
    IN  IF seller_id \notin DOMAIN G1.player2cash THEN Raise(G1)
        ELSE
        LET G2 == [G1 EXCEPT !.player2cash[seller_id] = @ + price]
        IN  IF ~HasCard(G2, buyer_id, order.suit) THEN Raise(G2)
            ELSE
            LET G3 == [G2 EXCEPT !.player2cards[buyer_id][order.suit] = @ + 1]
                G4 == [G3 EXCEPT !.player2cards[seller_id][order.suit] = @ - 1]
            IN  IF buyer_id \notin DOMAIN G4.player2card_count THEN Raise(G4)
                ELSE
                LET G5 == [G4 EXCEPT !.player2card_count[buyer_id] = @ + 1]
                IN  IF seller_id \notin DOMAIN G5.player2card_count THEN Raise(G5)
                    ELSE Done([G5 EXCEPT !.player2card_count[seller_id] = @ - 1],
                              "Order accepted")

\* process_accept_order: the branch of order.is_bid, then the book reset of
\* lines 252-255.  ret is the message of accept_order_processed.
process_accept_order(G, order) ==
    IF order.suit \notin DOMAIN G.bids THEN Raise(G)
    ELSE
    LET r == IF order.is_bid THEN accept_bid(G, order) ELSE accept_ask(G, order)
    IN  IF ~r.raised /\ r.ret = "Order accepted"
        THEN Done(reset_orderbook(r.G, order.suit), r.ret)
        ELSE r

(***************************************************************************)
(* Messages: WebSocketGame.send_message, broadcast and the event handlers  *)
(* registered in WebSocketGame.__init__.  A handler's sends are listed in  *)
(* the order the handler makes them; a broadcast is listed by ascending    *)
(* channel id, the observers last.                                        *)
(***************************************************************************)
\* websocket.send_json(message) on the channel `to`.
Msg(to, type, data) == [to |-> to, type |-> type, data |-> data]

RECURSIVE Sorted(_)
\* The elements of a set of integers, ascending.
Sorted(S) ==
    IF S = {} THEN <<>>
    ELSE LET m == CHOOSE x \in S : \A y \in S : x <= y
         IN  <<m>> \o Sorted(S \ {m})

\* WebSocketGame.send_message: dropped when player_id has no channel.
send_message(conns, player_id, type, data) ==
    IF player_id \in conns THEN <<Msg(player_id, type, data)>> ELSE <<>>

\* A broadcast that leaves out the observers.
broadcast_players(conns, type, data) ==
    [i \in 1..Len(Sorted(conns)) |-> Msg(Sorted(conns)[i], type, data)]

\* WebSocketGame.broadcast: every player channel, then every observer.
broadcast(conns, type, data) ==
    LET to == Sorted(conns) \o ui_connections
    IN  [i \in 1..Len(to) |-> Msg(to[i], type, data)]

\* on_deal_cards, for the deal_cards events of Game.deal_cards (lines 99-106):
\* one per player of ps, carrying that player's hand and cash.
on_deal_cards(conns, ps, cards, cash) ==
    LET one[i \in 0..Len(ps)] ==
            IF i = 0 THEN <<>>
            ELSE one[i - 1] \o send_message(conns, ps[i], "deal_cards",
                                            [cards |-> cards[ps[i]], cash |-> cash[ps[i]]])
    IN  one[Len(ps)]

\* A dump that excludes nothing.
model_dump_all(state, exclude) == state

\* GameState.model_dump(exclude=...): the fields of the state but the excluded.
model_dump(state, exclude) == [f \in (DOMAIN state) \ exclude |-> state[f]]

(***************************************************************************)
(* The state machine.                                                      *)
(***************************************************************************)
\* The part of GameState the order commands work on.
GameOf == [player2cards |-> player2cards, player2card_count |-> player2card_count,
           player2cash |-> player2cash, bids |-> bids, asks |-> asks]

\* Order(**message["data"])
Order(player_id, suit, price, is_bid) ==
    [is_bid |-> is_bid, suit |-> suit, price |-> price, player_id |-> player_id]

\* What `last` tells of a handled command: its type, the side it named, the
\* status message sent back to the sender ("error" when the handler caught an
\* exception), what execute_trade returned and whether the order was booked.
Outcome(type, is_bid, status, trade, placed) ==
    [type |-> type, is_bid |-> is_bid, status |-> status, trade |-> trade,
     placed |-> placed]

\* Game.__init__ / WebSocketGame.__init__ with GameState's defaults.
Init ==
    /\ players = <<>>
    /\ ready = {}
    /\ connections = {}
    /\ busy = EmptyDict
    /\ closed = {}
    /\ started = FALSE
    /\ countdown = timer_max
    /\ goal_suit = ""
    /\ player2cards = EmptyDict
    /\ player2card_count = EmptyDict
    /\ player2cash = EmptyDict
    /\ bids = EmptyBook
    /\ asks = EmptyBook
    /\ last = Outcome("init", FALSE, "", "", FALSE)
    /\ ncmd = 0
    /\ hand_order = <<>>
    /\ timers = {}
    /\ countdown_task = 0
    /\ emitted = [pre_game_countdown |-> 0, game_started |-> 0, game_ended |-> 0]
    /\ sent = <<>>
    /\ tasks = <<>>
    /\ inbox = [c \in Channels |-> <<>>]
    /\ deal_suit2counts = <<>>
    /\ deal_all_cards = <<>>

\* An all-ready test that forgets the capacity.
all_ready_any_count(ps, rdy) == \A i \in 1..Len(ps) : ps[i] \in rdy

\* Game.check_all_players_ready
check_all_players_ready(ps, rdy) ==
    (\A i \in 1..Len(ps) : ps[i] \in rdy) /\ Len(ps) = max_players

\* A join without the capacity check.
add_player_unbounded(ps, player_id) ==
    IF player_id \in Range(ps) THEN ps ELSE Append(ps, player_id)

\* Game.add_player: the players dict after the call.
add_player(ps, player_id) ==
    IF player_id \in Range(ps) THEN ps
    ELSE IF Len(ps) < max_players /\ player_id \notin Range(ps)
         THEN Append(ps, player_id)
         ELSE ps

\* Game.add_player: what the call returns.
add_player_returns(ps, player_id) ==
    IF player_id \in Range(ps) THEN "Player already in game" ELSE "None"

\* Game.remove_player: the players dict after the call.
remove_player(ps, player_id) == SelectSeq(ps, LAMBDA x : x # player_id)

\* A readiness that marks any id, joined or not.
player_is_ready_any(ps, rdy, player_id) == rdy \cup {player_id}

\* Game.player_is_ready: the ready flags after the call.
player_is_ready(ps, rdy, player_id) ==
    IF player_id \in Range(ps) THEN rdy \cup {player_id} ELSE rdy

\* handle_message, "add_player", on the connection of player c.  The channel
\* is registered (line 57) before Game.add_player decides (line 58); a player
\* that is added is a new Player, with ready = False.
AddPlayer(c) ==
    /\ c \notin closed
    /\ c \notin DOMAIN busy
    /\ connections' = connections \cup {c}
    /\ players' = add_player(players, c)
    /\ ready' = IF players' # players THEN ready \ {c} ELSE ready
    /\ sent' = IF players' # players
               THEN broadcast(connections', "player_added", [player_id |-> c])
               ELSE <<>>
    /\ last' = Outcome("add_player", FALSE, add_player_returns(players, c), "", FALSE)
    /\ UNCHANGED <<busy, closed, ncmd, emitted>>
    /\ UNCHANGED <<game_vars, book_vars, bus_vars, deck_vars>>

\* handle_message, "player_ready", on the connection of player c, up to the
\* first sleep of pre_game_countdown: the handler of c stays inside the
\* countdown (busy) until StartGame(c).
PlayerReady(c) ==
    /\ c \notin closed
    /\ c \notin DOMAIN busy
    /\ ready' = player_is_ready(players, ready, c)
    /\ sent' = IF c \in Range(players)
               THEN broadcast(connections, "player_ready", [player_id |-> c])
               ELSE <<>>
    /\ IF check_all_players_ready(players, ready')
       THEN /\ busy' = [x \in DOMAIN busy \cup {c} |->
                           IF x = c THEN PreGameSteps ELSE busy[x]]
            /\ emitted' = [emitted EXCEPT !.pre_game_countdown = @ + 1]
       ELSE UNCHANGED <<busy, emitted>>
    /\ last' = Outcome("player_ready", FALSE, "", "", FALSE)
    /\ UNCHANGED <<players, connections, closed, ncmd>>
    /\ UNCHANGED <<game_vars, book_vars, bus_vars, deck_vars>>

\* pre_game_countdown in the handler of c: a sleep is over and "Game starting
\* in i" is broadcast, for i = 3 and i = 2.
PreGameStep(c) ==
    /\ c \in DOMAIN busy
    /\ busy[c] > 1
    /\ sent' = broadcast(connections, "message", busy[c])
    /\ busy' = [busy EXCEPT ![c] = @ - 1]
    /\ last' = Outcome("pre_game_countdown", FALSE, "", "", FALSE)
    /\ UNCHANGED <<players, ready, connections, closed, ncmd, emitted>>
    /\ UNCHANGED <<game_vars, book_vars, bus_vars, deck_vars>>

\* The end of pre_game_countdown in the handler of c: the last sleep and
\* broadcast, then Game.start_game with Game.deal_cards.  goal, goal_count,
\* swap_suits, swap_counts and shuf are the outcomes of the random draws.  The
\* countdown task it creates passes the loop test of Game.countdown (line 323)
\* and falls asleep.
StartGame(c, goal, goal_count, swap_suits, swap_counts, shuf) ==
    /\ c \in DOMAIN busy
    /\ busy[c] = 1
    /\ busy' = [x \in DOMAIN busy \ {c} |-> busy[x]]
    /\ IF ~check_all_players_ready(players, ready)
       THEN /\ sent' = broadcast(connections, "message", 1)
            /\ last' = Outcome("start_game", FALSE, "Not all players ready", "", FALSE)
            /\ UNCHANGED <<game_vars, emitted>>
       ELSE \E hands \in {Hands[<<goal, goal_count, swap_suits, swap_counts, shuf>>,
                                  players]},
               task \in {emitted.game_started + 1} :
                /\ goal_suit' = goal
                /\ player2cards' = hands
                /\ hand_order' = players
                /\ player2cash' = initialize_player_cash(players)
                /\ player2card_count' = [pid \in DOMAIN hands |-> Sum(hands[pid])]
                /\ started' = TRUE
                /\ countdown' = timer_max
                /\ timers' = timers \cup {task}
                /\ countdown_task' = task
                /\ emitted' = [emitted EXCEPT !.game_started = @ + 1]
                /\ sent' = broadcast(connections, "message", 1)
                           \o on_deal_cards(connections, players, hands, player2cash')
                           \o broadcast(connections, "game_started", [game_id |-> "game"])
                /\ last' = Outcome("start_game", FALSE, "game_started", "", FALSE)
    /\ UNCHANGED <<players, ready, connections, closed, ncmd>>
    /\ UNCHANGED <<book_vars, bus_vars, deck_vars>>

\* The data of a transaction_processed event.
transaction(seller_id, buyer_id, suit, price) ==
    [from |-> seller_id, to |-> buyer_id, suit |-> suit, amount |-> price]

\* The transaction_processed event of the trade process_add_order hands to
\* execute_trade (lines 170-178).
add_order_transaction(G, order) ==
    IF order.is_bid
    THEN transaction(G.asks[order.suit].player_id, order.player_id, order.suit,
                     bid_trade_price(order, G.asks[order.suit]))
    ELSE transaction(order.player_id, G.bids[order.suit].player_id, order.suit,
                     ask_trade_price(order, G.bids[order.suit]))

\* The transaction_processed event of process_accept_order (lines 211-219 and
\* 241-249).
accept_order_transaction(G, order) ==
    IF order.is_bid
    THEN transaction(order.player_id, G.bids[order.suit].player_id, order.suit,
                     G.bids[order.suit].price)
    ELSE transaction(G.asks[order.suit].player_id, order.player_id, order.suit,
                     G.asks[order.suit].price)

\* on_transaction_processed: message = data["message"] (line 117), a KeyError
\* that ends the handler task when data has no such key; then the broadcast.
on_transaction_processed(conns, data) ==
    IF "message" \in DOMAIN data
    THEN broadcast(conns, "transaction_processed", data.message)
    ELSE <<>>

\* handle_message, "place_order", on the connection of client c:
\* process_add_order on the order of the payload, whose player_id is the
\* payload's; an exception is caught and answered to c with an error message.
\* The messages are those of the transaction_processed event of a settled
\* trade, then that of add_order_processed.
PlaceOrderOn(c, player_id, suit, price, is_bid) ==
    /\ ncmd < MaxCommands
    /\ \E r \in {process_add_order(GameOf, Order(player_id, suit, price, is_bid))} :
           /\ player2cards' = r.G.player2cards
           /\ player2card_count' = r.G.player2card_count
           /\ player2cash' = r.G.player2cash
           /\ bids' = r.G.bids
           /\ asks' = r.G.asks
           /\ last' = Outcome("place_order", is_bid,
                              IF r.raised THEN "error" ELSE r.ret, r.trade, r.placed)
           /\ sent' = IF r.raised
                      THEN send_message(connections, c, "error", r.ret)
                      ELSE (IF r.trade = "Trade executed successfully"
                            THEN on_transaction_processed(
                                     connections,
                                     add_order_transaction(
                                         GameOf, Order(player_id, suit, price, is_bid)))
                            ELSE <<>>)
                           \o send_message(connections, player_id,
                                           "add_order_processed", r.ret)
    /\ ncmd' = ncmd + 1
    /\ UNCHANGED <<started, countdown, goal_suit, hand_order, timers, countdown_task>>
    /\ UNCHANGED <<lobby_vars, emitted, bus_vars, deck_vars>>

\* A place_order sent on the connection of the player it names.
PlaceOrder(player_id, suit, price, is_bid) ==
    PlaceOrderOn(player_id, player_id, suit, price, is_bid)

\* handle_message, "accept_order", on the connection of client c:
\* process_accept_order on the order of the payload; an exception is caught
\* and answered to c with an error message.
AcceptOrderOn(c, player_id, suit, is_bid) ==
    /\ ncmd < MaxCommands
    /\ \E r \in {process_accept_order(GameOf, Order(player_id, suit, -1, is_bid))} :
           /\ player2cards' = r.G.player2cards
           /\ player2card_count' = r.G.player2card_count
           /\ player2cash' = r.G.player2cash
           /\ bids' = r.G.bids
           /\ asks' = r.G.asks
           /\ last' = Outcome("accept_order", is_bid,
                              IF r.raised THEN "error" ELSE r.ret, "", FALSE)
           /\ sent' = IF r.raised
                      THEN send_message(connections, c, "error", r.ret)
                      ELSE (IF r.ret = "Order accepted"
                            THEN on_transaction_processed(
                                     connections,
                                     accept_order_transaction(
                                         GameOf, Order(player_id, suit, -1, is_bid)))
                            ELSE <<>>)
                           \o send_message(connections, player_id,
                                           "accept_order_processed", r.ret)
    /\ ncmd' = ncmd + 1
    /\ UNCHANGED <<started, countdown, goal_suit, hand_order, timers, countdown_task>>
    /\ UNCHANGED <<lobby_vars, emitted, bus_vars, deck_vars>>

\* An accept_order sent on the connection of the player it names.
AcceptOrder(player_id, suit, is_bid) ==
    AcceptOrderOn(player_id, player_id, suit, is_bid)

\* websocket_endpoint, finally: the connection of player c has closed.  The
\* channel is dropped and Game.remove_player takes c (with its ready flag) out
\* of the game; player_removed has no handler.
Disconnect(c) ==
    /\ c \in connections
    /\ c \notin closed
    /\ c \notin DOMAIN busy
    /\ closed' = closed \cup {c}
    /\ connections' = connections \ {c}
    /\ players' = remove_player(players, c)
    /\ ready' = ready \ {c}
    /\ sent' = <<>>
    /\ last' = Outcome("disconnect", FALSE, "", "", FALSE)
    /\ UNCHANGED <<busy, ncmd, emitted>>
    /\ UNCHANGED <<game_vars, book_vars, bus_vars, deck_vars>>

\* A comparison that lets a later player with an equal score take the lead.
score_beats_or_ties(score, max_score) == score >= max_score

\* calculate_winner, line 311.
score_beats(score, max_score) == score > max_score

\* calculate_winner, lines 307-310, and stop_game, lines 354-355: the cards of
\* the goal suit times 10, plus the cash.
score_of(cards, cash, goal, pid) ==
    (IF goal \in DOMAIN cards[pid] THEN cards[pid][goal] ELSE 0) * 10 + cash[pid]

\* Game.calculate_winner: the loop over player2cards.items(), in the order of
\* the dict's keys.
calculate_winner(order, cards, cash, goal) ==
    LET best[k \in 0..Len(order)] ==
            IF k = 0 THEN [winner |-> EmptyId, max_score |-> -1]
            ELSE LET score == score_of(cards, cash, goal, order[k])
                 IN  IF score_beats(score, best[k - 1].max_score)
                     THEN [winner |-> order[k], max_score |-> score]
                     ELSE best[k - 1]
    IN  best[Len(order)]

\* stop_game, lines 344-359, with the game_id on_game_ended adds (line 94).
end_game_stats(order, cards, cash, goal) ==
    LET w == calculate_winner(order, cards, cash, goal)
    IN  [goal_suit |-> goal,
         winner |-> w.winner,
         winner_score |-> w.max_score,
         final_player_stats |->
             [pid \in Range(order) |->
                 [cards |-> cards[pid], cash |-> cash[pid],
                  score |-> score_of(cards, cash, goal, pid)]],
         game_id |-> "game"]

\* GameState as a record, for model_dump.
StateOf(cd) ==
    [started |-> started, countdown |-> cd, player2cards |-> player2cards,
     player2card_count |-> player2card_count, goal_suit |-> goal_suit,
     player2cash |-> player2cash, orderbook |-> [bids |-> bids, asks |-> asks]]

\* Game.countdown in the countdown task t: the sleep is over; the countdown is
\* decremented and game_state emitted (lines 329-333); then the loop test (lines
\* 323-327) either sends the task back to sleep or ends the loop, and
\* Game.stop_game runs if the game is started (lines 334-335).  stop_game
\* cancels the task Game.countdown_task names, which ends in its sleep.
Tick(t) ==
    /\ t \in timers
    /\ LET cd == countdown - 1
           state == model_dump(StateOf(cd), {"player2cards", "goal_suit"})
           game_state == broadcast(connections, "game_state", state)
       IN  IF cd > 0 /\ started /\ check_all_players_ready(players, ready)
           THEN /\ countdown' = cd
                /\ sent' = game_state
                /\ last' = Outcome("tick", FALSE, "", "", FALSE)
                /\ UNCHANGED <<started, timers, countdown_task, emitted>>
           ELSE IF started
           THEN /\ started' = FALSE
                /\ countdown' = timer_max
                /\ timers' = timers \ {t, countdown_task}
                /\ countdown_task' = 0
                /\ emitted' = [emitted EXCEPT !.game_ended = @ + 1]
                /\ sent' = game_state
                           \o broadcast(connections, "game_ended",
                                        end_game_stats(hand_order, player2cards,
                                                       player2cash, goal_suit))
                /\ last' = Outcome("tick", FALSE, "game_ended", "", FALSE)
           ELSE /\ countdown' = cd
                /\ timers' = timers \ {t}
                /\ sent' = game_state
                /\ last' = Outcome("tick", FALSE, "", "", FALSE)
                /\ UNCHANGED <<started, countdown_task, emitted>>
    /\ UNCHANGED <<goal_suit, player2cards, player2card_count, player2cash, hand_order>>
    /\ UNCHANGED <<lobby_vars, book_vars, ncmd, bus_vars, deck_vars>>

\* The clients of this specification follow the protocol of the game: the
\* clients connect and join in the order of their ids, each once; a client
\* reports ready once after joining; orders are sent while the game is started,
\* in the name of the players in Traders.
Next ==
    \/ \E c \in Ids : c = Len(players) + 1 /\ c \notin connections /\ AddPlayer(c)
    \/ \E c \in Ids : c \in Range(players) /\ c \notin ready /\ PlayerReady(c)
    \/ \E c \in Ids : PreGameStep(c)
    \/ \E c \in Ids, goal \in GoalSuitDraws, goal_count \in GoalCountDraws,
          swap_suits \in SwapDraws, swap_counts \in SwapDraws, shuf \in ShuffleDraws :
          StartGame(c, goal, goal_count, swap_suits, swap_counts, shuf)
    \/ \E player_id \in Traders, suit \in OrderSuits, price \in Prices, is_bid \in BOOLEAN :
          started /\ PlaceOrder(player_id, suit, price, is_bid)
    \/ \E player_id \in Traders, suit \in OrderSuits, is_bid \in BOOLEAN :
          started /\ AcceptOrder(player_id, suit, is_bid)

Spec == Init /\ [][Next]_vars

\* Trading has begun: game_started has been emitted.
Begun == emitted.game_started > 0

(***************************************************************************)
(* Session: the clients send any lobby command at any time, also twice,    *)
(* connections close, and the countdown tasks tick.  The clients are       *)
(* numbered in the order of their first add_player, and a client whose     *)
(* connection has closed does not come back.                               *)
(***************************************************************************)
SessionNext ==
    \/ \E c \in Clients :
          /\ \A d \in Clients : d < c => d \in connections \cup closed
          /\ AddPlayer(c)
    \/ \E c \in Clients :
          /\ check_all_players_ready(players, player_is_ready(players, ready, c))
                => emitted.pre_game_countdown < MaxGames
          /\ PlayerReady(c)
    \/ \E c \in Clients : PreGameStep(c)
    \/ \E c \in Clients, goal \in GoalSuitDraws, goal_count \in GoalCountDraws,
          swap_suits \in SwapDraws, swap_counts \in SwapDraws, shuf \in ShuffleDraws :
          StartGame(c, goal, goal_count, swap_suits, swap_counts, shuf)
    \/ \E c \in Clients : Disconnect(c)
    \/ \E t \in 1..MaxGames : Tick(t)

Session == Init /\ [][SessionNext]_vars

\* Session with the scheduling the event loop gives: a sleep of
\* pre_game_countdown or of Game.countdown ends, and the task goes on.
FairSession ==
    /\ Session
    /\ WF_vars(\E c \in Clients : PreGameStep(c))
    /\ WF_vars(\E c \in Clients, goal \in GoalSuitDraws, goal_count \in GoalCountDraws,
                  swap_suits \in SwapDraws, swap_counts \in SwapDraws,
                  shuf \in ShuffleDraws :
                  StartGame(c, goal, goal_count, swap_suits, swap_counts, shuf))
    /\ WF_vars(\E t \in 1..MaxGames : Tick(t))

(***************************************************************************)
(* Match: one game from the lobby to its end.  The clients follow the       *)
(* protocol of Spec; in addition the countdown task ticks and a player may  *)
(* leave while the game is started.  The orders name one suit and one price.*)
(***************************************************************************)
\* Suits and prices of the orders of Match.
MatchSuits == {"hearts"}
MatchPrices == {5}

MatchNext ==
    \/ \E c \in Ids : c = Len(players) + 1 /\ c \notin connections \cup closed /\ AddPlayer(c)
    \/ \E c \in Ids : c \in Range(players) /\ c \notin ready /\ PlayerReady(c)
    \/ \E c \in Ids : PreGameStep(c)
    \/ \E c \in Ids, goal \in GoalSuitDraws, goal_count \in GoalCountDraws,
          swap_suits \in SwapDraws, swap_counts \in SwapDraws, shuf \in ShuffleDraws :
          StartGame(c, goal, goal_count, swap_suits, swap_counts, shuf)
    \/ \E player_id \in Traders, suit \in MatchSuits, price \in MatchPrices, is_bid \in BOOLEAN :
          started /\ PlaceOrder(player_id, suit, price, is_bid)
    \/ \E player_id \in Traders, suit \in MatchSuits, is_bid \in BOOLEAN :
          started /\ AcceptOrder(player_id, suit, is_bid)
    \/ \E c \in Ids : started /\ Disconnect(c)
    \/ \E t \in 1..MaxGames : Tick(t)

Match == Init /\ [][MatchNext]_vars

(***************************************************************************)
(* Haggle: the protocol-following clients of Spec, with orders on one suit *)
(* at a price below zero that exceeds every player's cash, or at a small   *)
(* positive price.  Order.price is an int and nothing tests its sign.      *)
(***************************************************************************)
HagglePrices == {-400, 5}

HaggleNext ==
    \/ \E c \in Ids : c = Len(players) + 1 /\ c \notin connections /\ AddPlayer(c)
    \/ \E c \in Ids : c \in Range(players) /\ c \notin ready /\ PlayerReady(c)
    \/ \E c \in Ids : PreGameStep(c)
    \/ \E c \in Ids, goal \in GoalSuitDraws, goal_count \in GoalCountDraws,
          swap_suits \in SwapDraws, swap_counts \in SwapDraws, shuf \in ShuffleDraws :
          StartGame(c, goal, goal_count, swap_suits, swap_counts, shuf)
    \/ \E player_id \in Traders, suit \in MatchSuits, price \in HagglePrices, is_bid \in BOOLEAN :
          started /\ PlaceOrder(player_id, suit, price, is_bid)
    \/ \E player_id \in Traders, suit \in MatchSuits, is_bid \in BOOLEAN :
          started /\ AcceptOrder(player_id, suit, is_bid)

Haggle == Init /\ [][HaggleNext]_vars

(***************************************************************************)
(* Early: the clients of Match, whose orders are sent at any time: in the  *)
(* lobby, during the pre-game countdown, while the game is started and     *)
(* after it has ended.  handle_message does not look at GameState.started. *)
(***************************************************************************)
EarlyNext ==
    \/ \E c \in Ids : c = Len(players) + 1 /\ c \notin connections /\ AddPlayer(c)
    \/ \E c \in Ids : c \in Range(players) /\ c \notin ready /\ PlayerReady(c)
    \/ \E c \in Ids : PreGameStep(c)
    \/ \E c \in Ids, goal \in GoalSuitDraws, goal_count \in GoalCountDraws,
          swap_suits \in SwapDraws, swap_counts \in SwapDraws, shuf \in ShuffleDraws :
          StartGame(c, goal, goal_count, swap_suits, swap_counts, shuf)
    \/ \E player_id \in Traders, suit \in MatchSuits, price \in MatchPrices, is_bid \in BOOLEAN :
          PlaceOrder(player_id, suit, price, is_bid)
    \/ \E player_id \in Traders, suit \in MatchSuits, is_bid \in BOOLEAN :
          AcceptOrder(player_id, suit, is_bid)
    \/ \E t \in 1..MaxGames : Tick(t)

Early == Init /\ [][EarlyNext]_vars

(***************************************************************************)
(* Forge: the clients of Match, whose order commands carry any player's id *)
(* in the payload: the Order is built from the data of the message, its   *)
(* player_id included, the connection's player_id being a separate         *)
(* argument of handle_message.                                             *)
(***************************************************************************)
ForgeNext ==
    \/ \E c \in Ids : c = Len(players) + 1 /\ c \notin connections /\ AddPlayer(c)
    \/ \E c \in Ids : c \in Range(players) /\ c \notin ready /\ PlayerReady(c)
    \/ \E c \in Ids : PreGameStep(c)
    \/ \E c \in Ids, goal \in GoalSuitDraws, goal_count \in GoalCountDraws,
          swap_suits \in SwapDraws, swap_counts \in SwapDraws, shuf \in ShuffleDraws :
          StartGame(c, goal, goal_count, swap_suits, swap_counts, shuf)
    \/ \E c \in Traders, player_id \in Traders, suit \in MatchSuits,
          price \in MatchPrices, is_bid \in BOOLEAN :
          started /\ c \in connections /\ PlaceOrderOn(c, player_id, suit, price, is_bid)
    \/ \E c \in Traders, player_id \in Traders, suit \in MatchSuits, is_bid \in BOOLEAN :
          started /\ c \in connections /\ AcceptOrderOn(c, player_id, suit, is_bid)

Forge == Init /\ [][ForgeNext]_vars

(***************************************************************************)
(* Restarts: the players join in the order of their ids; then any joined   *)
(* player sends player_ready at any time, also again while a game is being *)
(* started or is running, and the countdown tasks tick.                    *)
(***************************************************************************)
\* The runs of pre_game_countdown a behaviour of Restarts holds: as many
\* countdown tasks as it takes to tick the countdown of an ended game, which
\* stop_game has set to timer_max, below zero, and the task that ended the game.
MaxRestarts == timer_max + 2

RestartsNext ==
    \/ \E c \in Ids : c = Len(players) + 1 /\ c \notin connections /\ AddPlayer(c)
    \/ \E c \in Ids :
          /\ c \in Range(players)
          /\ check_all_players_ready(players, player_is_ready(players, ready, c))
                => emitted.pre_game_countdown < MaxRestarts
          /\ PlayerReady(c)
    \/ \E c \in Ids : PreGameStep(c)
    \/ \E c \in Ids, goal \in GoalSuitDraws, goal_count \in GoalCountDraws,
          swap_suits \in SwapDraws, swap_counts \in SwapDraws, shuf \in ShuffleDraws :
          StartGame(c, goal, goal_count, swap_suits, swap_counts, shuf)
    \/ \E t \in 1..MaxRestarts : Tick(t)

Restarts == Init /\ [][RestartsNext]_vars

(***************************************************************************)
(* Bus: the handler tasks of emit_event.  Game.emit_event creates one task  *)
(* per listener and returns; the tasks start in creation order, and a task  *)
(* is suspended at every send (await websocket.send_json) for as long as    *)
(* the channel takes, the tasks waiting on one channel going on in the      *)
(* order they came.  The events are those of a started game: game_state of *)
(* the countdown, add_order_processed and transaction_processed of the      *)
(* order handlers.                                                         *)
(***************************************************************************)
\* The messages delivered so far.
Delivered == SumOver([c \in DOMAIN inbox |-> Len(inbox[c])], DOMAIN inbox)

\* The sends of the listener of an event, in order: on_game_state broadcasts,
\* on_add_order sends to the player of the order, on_transaction_processed
\* ends on data["message"] (line 117) before any send.
listener(event, player_id, n) ==
    IF event = "game_state" THEN broadcast(connections, event, n)
    ELSE IF event = "add_order_processed" THEN send_message(connections, player_id, event, n)
    ELSE <<>>

\* Game.emit_event(event, data): asyncio.create_task(callback(data)).  The
\* events are numbered in emission order; `at` is the channel the task sent to
\* last (0 before its first send) and `ticket` the arrival order there.
EmitEvent(event, player_id) ==
    /\ started
    /\ Len(tasks) < MaxEvents
    /\ tasks' = Append(tasks, [event |-> Len(tasks) + 1,
                               msgs |-> listener(event, player_id, Len(tasks) + 1),
                               at |-> 0, ticket |-> 0])
    /\ UNCHANGED <<lobby_vars, game_vars, book_vars, last, ncmd, emitted, sent, inbox>>
    /\ UNCHANGED deck_vars

\* The task k runs up to the end of its next send.
RunHandler(k) ==
    /\ k \in 1..Len(tasks)
    /\ tasks[k].msgs # <<>>
    /\ IF tasks[k].at = 0
       THEN \A j \in 1..(k - 1) : tasks[j].at # 0 \/ tasks[j].msgs = <<>>
       ELSE \A j \in 1..Len(tasks) :
                (j # k /\ tasks[j].msgs # <<>> /\ tasks[j].at = tasks[k].at)
                    => tasks[j].ticket > tasks[k].ticket
    /\ \E m \in {Head(tasks[k].msgs)} :
          /\ inbox' = [inbox EXCEPT ![m.to] = Append(@, [event |-> m.data, type |-> m.type])]
          /\ tasks' = [tasks EXCEPT ![k] = [event |-> tasks[k].event,
                                            msgs |-> Tail(tasks[k].msgs),
                                            at |-> m.to, ticket |-> Delivered + 1]]
    /\ UNCHANGED <<lobby_vars, game_vars, book_vars, last, ncmd, emitted, sent>>
    /\ UNCHANGED deck_vars

\* The events of Bus.
BusEvents == {"game_state", "add_order_processed", "transaction_processed"}

BusNext ==
    \/ \E c \in Ids : c = Len(players) + 1 /\ c \notin connections /\ AddPlayer(c)
    \/ \E c \in Ids : c \in Range(players) /\ c \notin ready /\ PlayerReady(c)
    \/ \E c \in Ids : PreGameStep(c)
    \/ \E c \in Ids, goal \in GoalSuitDraws, goal_count \in GoalCountDraws,
          swap_suits \in SwapDraws, swap_counts \in SwapDraws, shuf \in ShuffleDraws :
          StartGame(c, goal, goal_count, swap_suits, swap_counts, shuf)
    \/ \E event \in BusEvents, player_id \in Ids : EmitEvent(event, player_id)
    \/ \E k \in 1..MaxEvents : RunHandler(k)

Bus == Init /\ [][BusNext]_vars

(***************************************************************************)
(* Deal: Game.deal_cards statement by statement, on a game of up to        *)
(* MaxDealt joined players, for every goal suit, every goal count, every   *)
(* outcome of the two shuffles of get_suit_distribution and the decks of   *)
(* DeckShuffles.                                                           *)
(***************************************************************************)
\* random.choice of get_goal_suit.
DeckGoals == Suits
\* Constants.goal_suit_counts
goal_suit_counts == {8, 10}
\* Outcomes of random.shuffle(all_cards), see shuffle.
DeckShuffles == {[n |-> n, cut |-> cut] : n \in 1..MaxDealt, cut \in {0, 7, 13}}

\* A game with n players joined, n = 1..MaxDealt, and nothing dealt.
DealInit ==
    /\ \E n \in 1..MaxDealt :
          /\ players = [i \in 1..n |-> i]
          /\ connections = 1..n
    /\ ready = {}
    /\ busy = EmptyDict
    /\ closed = {}
    /\ started = FALSE
    /\ countdown = timer_max
    /\ goal_suit = ""
    /\ player2cards = EmptyDict
    /\ player2card_count = EmptyDict
    /\ player2cash = EmptyDict
    /\ bids = EmptyBook
    /\ asks = EmptyBook
    /\ last = Outcome("init", FALSE, "", "", FALSE)
    /\ ncmd = 0
    /\ hand_order = <<>>
    /\ timers = {}
    /\ countdown_task = 0
    /\ emitted = [pre_game_countdown |-> 0, game_started |-> 0, game_ended |-> 0]
    /\ sent = <<>>
    /\ tasks = <<>>
    /\ inbox = [c \in Channels |-> <<>>]
    /\ deal_suit2counts = <<>>
    /\ deal_all_cards = <<>>

\* deal_cards, lines 83-84: the goal suit is drawn and get_suit_distribution
\* called.
GetSuitDistribution(goal, goal_count, swap_suits, swap_counts) ==
    /\ deal_suit2counts = <<>>
    /\ goal_suit' = goal
    /\ deal_suit2counts' = get_suit_distribution(goal, goal_count, swap_suits, swap_counts)
    /\ UNCHANGED <<started, countdown, player2cards, player2card_count, player2cash,
                   hand_order, timers, countdown_task, deal_all_cards>>
    /\ UNCHANGED <<lobby_vars, book_vars, last, ncmd, emitted, sent, bus_vars>>

\* deal_cards, line 85: create_deck.
CreateDeck(shuf) ==
    /\ deal_suit2counts # <<>>
    /\ deal_all_cards = <<>>
    /\ deal_all_cards' = create_deck(deal_suit2counts, shuf.n, shuf.cut)
    /\ UNCHANGED <<game_vars, deal_suit2counts>>
    /\ UNCHANGED <<lobby_vars, book_vars, last, ncmd, emitted, sent, bus_vars>>

\* deal_cards, lines 87-92: distribute_cards, initialize_player_cash and the
\* card counts.
DistributeCards ==
    /\ deal_all_cards # <<>>
    /\ player2cards = EmptyDict
    /\ \E hands \in {distribute_cards(deal_all_cards, players)} :
          /\ player2cards' = hands
          /\ player2card_count' = [pid \in DOMAIN hands |-> Sum(hands[pid])]
    /\ hand_order' = players
    /\ player2cash' = initialize_player_cash(players)
    /\ UNCHANGED <<started, countdown, goal_suit, timers, countdown_task, deck_vars>>
    /\ UNCHANGED <<lobby_vars, book_vars, last, ncmd, emitted, sent, bus_vars>>

DealNext ==
    \/ \E goal \in DeckGoals, goal_count \in goal_suit_counts,
          swap_suits \in BOOLEAN, swap_counts \in BOOLEAN :
          GetSuitDistribution(goal, goal_count, swap_suits, swap_counts)
    \/ \E shuf \in DeckShuffles : CreateDeck(shuf)
    \/ DistributeCards

Deal == DealInit /\ [][DealNext]_vars

(***************************************************************************)
(* Properties.                                                             *)
(***************************************************************************)
StartCash == cash_per_player - cash_to_enter

\* The cards of suit s that pid holds: 0 when the hand has no key for s.
Held(cards, pid, s) ==
    IF pid \in DOMAIN cards /\ s \in DOMAIN cards[pid] THEN cards[pid][s] ELSE 0

\* The cards of suit s held by all players together.
SuitTotal(cards, s) == SumOver([pid \in DOMAIN cards |-> Held(cards, pid, s)], DOMAIN cards)

\* The step handled a place_order or an accept_order command.
OrderStep == last'.type \in {"place_order", "accept_order"} /\ ncmd' = ncmd + 1

\* Cash, hands and the order book are as they were.
GameUnchanged ==
    UNCHANGED <<player2cards, player2card_count, player2cash, bids, asks>>

\* A resting order, as process_add_order tells one: its price is not -1.
Resting(rec) == rec.price # -1

\* The four settlement deltas of one card of `suit` sold by seller_id to
\* buyer_id at `price`, as the change from this state to the next.
Settled(seller_id, buyer_id, suit, price) ==
    /\ DOMAIN player2cash' = DOMAIN player2cash
    /\ DOMAIN player2cards' = DOMAIN player2cards
    /\ \A pid \in DOMAIN player2cash :
          player2cash'[pid] = player2cash[pid]
                              + (IF pid = seller_id THEN price ELSE 0)
                              - (IF pid = buyer_id THEN price ELSE 0)
    /\ \A pid \in DOMAIN player2cards : \A s \in Suits :
          Held(player2cards', pid, s) = Held(player2cards, pid, s)
                              - (IF pid = seller_id /\ s = suit THEN 1 ELSE 0)
                              + (IF pid = buyer_id /\ s = suit THEN 1 ELSE 0)

\* Both sides of the book of `suit` are the empty sentinel in the next state.
BookReset(suit) == bids'[suit] = SampleRecord /\ asks'[suit] = SampleRecord

\* C1: cash conservation.  In every state the cash balances of all players sum
\* to what the deal handed out: the starting cash once per dealt player.
C1_CashConserved ==
    Sum(player2cash) = StartCash * Cardinality(DOMAIN player2cash)

\* C1, witness: an automatic match has been settled and moved cash.
C1_Witness ==
    /\ last.type = "place_order"
    /\ last.trade = "Trade executed successfully"
    /\ \E pid \in DOMAIN player2cash : player2cash[pid] > StartCash

\* C2: card conservation.  A place_order or accept_order command leaves, for
\* every suit, the number of cards of the suit held by all players unchanged.
C2_CardsConserved ==
    [][OrderStep => \A s \in Suits :
          SuitTotal(player2cards', s) = SuitTotal(player2cards, s)]_vars

\* C3: settlement atomicity.  A place_order or accept_order command applies
\* either none of the four settlement deltas, or all four of one trade together
\* with the book reset of the traded suit.
C3_Atomic ==
    [][OrderStep =>
          \/ UNCHANGED <<player2cards, player2cash>>
          \/ \E seller_id \in Ids, buyer_id \in Ids, suit \in Suits, price \in Prices :
                Settled(seller_id, buyer_id, suit, price) /\ BookReset(suit)]_vars

\* C4: the order book is never crossed.  Whenever a suit has a resting bid and
\* a resting ask, the bid's price is strictly lower than the ask's.
C4_BookUncrossed ==
    \A s \in Suits :
        (Resting(bids[s]) /\ Resting(asks[s])) => bids[s].price < asks[s].price

\* C4, witness: an order has just been booked on a suit that now holds a
\* resting bid and a resting ask.
C4_Witness ==
    /\ last.type = "place_order"
    /\ last.placed
    /\ \E s \in Suits : Resting(bids[s]) /\ Resting(asks[s])

\* The step handled a place_order command naming the side is_bid.
PlaceStep(is_bid) == last'.type = "place_order" /\ last'.is_bid = is_bid

\* The step handled an accept_order command naming the side is_bid.
AcceptStep(is_bid) == last'.type = "accept_order" /\ last'.is_bid = is_bid

\* C5: bid crossing.  A bid on a suit whose resting ask it meets (price >= the
\* ask's price) settles a trade at the ask's price, the bidder buying from the
\* ask's owner, and resets the book of the suit.  The formula states this for
\* the bids that pass execute_trade's own two checks: the ask's owner holds a
\* card of the suit and the bidder's cash covers the ask's price.
C5_BidCrossing ==
    [][PlaceStep(TRUE) =>
       \A player_id \in Traders, suit \in OrderSuits, price \in Prices :
          ( /\ Resting(asks[suit]) /\ price >= asks[suit].price
            /\ Held(player2cards, asks[suit].player_id, suit) > 0
            /\ player_id \in DOMAIN player2cash
            /\ player2cash[player_id] >= asks[suit].price
            /\ PlaceOrder(player_id, suit, price, TRUE) )
          => ( /\ Settled(asks[suit].player_id, player_id, suit, asks[suit].price)
               /\ BookReset(suit) )]_vars

\* C6: maker price.  A trade made by an incoming order that crosses a resting
\* order moves the resting order's price from the buyer to the seller: for a
\* crossing ask, the resting bid's price from the bid's owner to the asker.
\* The formula states this for the incoming orders with a price of 0 or more.
C6_MakerPrice ==
    [][last'.trade = "Trade executed successfully" =>
       \A player_id \in Traders, suit \in OrderSuits, price \in Prices :
          /\ ( /\ price >= 0
               /\ Resting(bids[suit]) /\ price <= bids[suit].price
               /\ PlaceOrder(player_id, suit, price, FALSE) )
             => \A pid \in DOMAIN player2cash :
                   player2cash'[pid] = player2cash[pid]
                       + (IF pid = player_id THEN bids[suit].price ELSE 0)
                       - (IF pid = bids[suit].player_id THEN bids[suit].price ELSE 0)
          /\ ( /\ price >= 0
               /\ Resting(asks[suit]) /\ price >= asks[suit].price
               /\ PlaceOrder(player_id, suit, price, TRUE) )
             => \A pid \in DOMAIN player2cash :
                   player2cash'[pid] = player2cash[pid]
                       + (IF pid = asks[suit].player_id THEN asks[suit].price ELSE 0)
                       - (IF pid = player_id THEN asks[suit].price ELSE 0)]_vars

\* The resting order an accept_order names: the bid for is_bid, else the ask.
Named(suit, is_bid) == IF is_bid THEN bids[suit] ELSE asks[suit]

\* The seller of an accept_order sent by player_id.
AcceptSeller(player_id, suit, is_bid) ==
    IF is_bid THEN player_id ELSE asks[suit].player_id

\* The buyer of an accept_order sent by player_id.
AcceptBuyer(player_id, suit, is_bid) ==
    IF is_bid THEN bids[suit].player_id ELSE player_id

\* C7: self-trade rejection on accept.  An accept_order whose sender owns the
\* resting order of the named side changes no cash, no hand and no resting
\* order.
C7_SelfAcceptRejected ==
    [][\A is_bid \in BOOLEAN : AcceptStep(is_bid) =>
       \A player_id \in Traders, suit \in OrderSuits :
          ( /\ Named(suit, is_bid).player_id = player_id
            /\ AcceptOrder(player_id, suit, is_bid) )
          => (GameUnchanged /\ last'.status # "Order accepted")]_vars

\* C7, witness: an accept of the sender's own bid has been refused.
C7_Witness ==
    /\ last.type = "accept_order"
    /\ last.status = "Order not accepted, cannot accept own bid"
    /\ \E s \in Suits : Resting(bids[s])

\* C8: a rejected accept changes nothing.  An accept_order is not accepted and
\* changes no cash, no hand and no resting order when the seller holds no card
\* of the suit, or the buyer's cash is lower than the resting price, or the
\* named side holds no resting order (price -1, no owner).
C8_RejectedAccept ==
    [][\A is_bid \in BOOLEAN : AcceptStep(is_bid) =>
       \A player_id \in Traders, suit \in OrderSuits :
          ( /\ \/ Held(player2cards, AcceptSeller(player_id, suit, is_bid), suit) = 0
               \/ /\ AcceptBuyer(player_id, suit, is_bid) \in DOMAIN player2cash
                  /\ player2cash[AcceptBuyer(player_id, suit, is_bid)]
                        < Named(suit, is_bid).price
               \/ Named(suit, is_bid) = SampleRecord
            /\ AcceptOrder(player_id, suit, is_bid) )
          => (GameUnchanged /\ last'.status # "Order accepted")]_vars

\* C8, witness: an accept has been refused because the seller, who sold the
\* last card of the suit before, holds none.
C8_Witness ==
    /\ last.type = "accept_order"
    /\ last.status = "Order not accepted, seller does not have enough cards"
    /\ \E pid \in DOMAIN player2cards : \E s \in DOMAIN player2cards[pid] :
          player2cards[pid][s] = 0

\* C9: successful accept.  An accept_order that names a resting order and
\* passes the checks (the sender does not own the order, the seller holds a
\* card of the suit, the buyer's cash covers the resting price) settles one
\* card at the resting order's price, the sender selling when the bid is
\* accepted and buying when the ask is accepted, and resets the book of the
\* suit.
C9_AcceptSettles ==
    [][\A is_bid \in BOOLEAN : AcceptStep(is_bid) =>
       \A player_id \in Traders, suit \in OrderSuits :
          ( /\ Resting(Named(suit, is_bid))
            /\ Named(suit, is_bid).player_id # player_id
            /\ Held(player2cards, AcceptSeller(player_id, suit, is_bid), suit) > 0
            /\ AcceptBuyer(player_id, suit, is_bid) \in DOMAIN player2cash
            /\ player2cash[AcceptBuyer(player_id, suit, is_bid)]
                  >= Named(suit, is_bid).price
            /\ AcceptOrder(player_id, suit, is_bid) )
          => ( /\ Settled(AcceptSeller(player_id, suit, is_bid),
                          AcceptBuyer(player_id, suit, is_bid),
                          suit, Named(suit, is_bid).price)
               /\ BookReset(suit) )]_vars

\* C10: a non-improving order is a no-op.  A bid that does not cross and whose
\* price is lower than or equal to the price of the suit's bid, and an ask that
\* does not cross and whose price is higher than or equal to the resting ask's
\* price, change no resting order, no hand and no cash.
C10_NonImprovingNoOp ==
    [][\A player_id \in Traders, suit \in OrderSuits, price \in Prices :
          /\ ( /\ PlaceStep(TRUE)
               /\ ~(Resting(asks[suit]) /\ price >= asks[suit].price)
               /\ price <= bids[suit].price
               /\ PlaceOrder(player_id, suit, price, TRUE) )
             => GameUnchanged
          /\ ( /\ PlaceStep(FALSE)
               /\ ~(Resting(bids[suit]) /\ price <= bids[suit].price)
               /\ Resting(asks[suit]) /\ price >= asks[suit].price
               /\ PlaceOrder(player_id, suit, price, FALSE) )
             => GameUnchanged]_vars

\* C10, witness: a bid that neither traded nor was booked has been handled on
\* a book that holds a resting bid.
C10_Witness ==
    /\ last.type = "place_order"
    /\ last.is_bid
    /\ last.status = "Order added"
    /\ ~last.placed
    /\ last.trade = ""
    /\ \E s \in Suits : Resting(bids[s]) /\ ~Resting(asks[s])

\* An order on `suit` that neither crosses the other side nor improves the
\* resting order of its own side.
NonImproving(suit, price, is_bid) ==
    IF is_bid
    THEN /\ ~(Resting(asks[suit]) /\ price >= asks[suit].price)
         /\ price <= bids[suit].price
    ELSE /\ ~(Resting(bids[suit]) /\ price <= bids[suit].price)
         /\ Resting(asks[suit]) /\ price >= asks[suit].price

\* C11: rejection is reported.  When a place_order neither crosses nor improves
\* the resting order of its side, the add_order_processed status sent to the
\* submitter differs from "Order added", the status of an order that was put
\* in the book.
C11_RejectionReported ==
    [][\A is_bid \in BOOLEAN : PlaceStep(is_bid) =>
       \A player_id \in Traders, suit \in OrderSuits, price \in Prices :
          ( /\ Resting(Named(suit, is_bid))
            /\ NonImproving(suit, price, is_bid)
            /\ PlaceOrder(player_id, suit, price, is_bid) )
          => \A i \in 1..Len(sent') :
                (sent'[i].to = player_id /\ sent'[i].type = "add_order_processed")
                => sent'[i].data # "Order added"]_vars

\* C12: lifecycle order and terminal state.  Once trading has begun, no step
\* enters pre_game_countdown again, deals hands or emits game_started again,
\* and a game that has ended (begun and no longer started) is never started
\* again.
C12_Lifecycle ==
    [][Begun =>
          /\ emitted'.pre_game_countdown = emitted.pre_game_countdown
          /\ emitted'.game_started = emitted.game_started
          /\ (player2cards' # player2cards => last'.type \in {"place_order", "accept_order"})
          /\ (~started => ~started')]_vars

\* C13: start gating.  The game is started, and hands are dealt, only by a step
\* taken with exactly max_players players joined and every one of them ready;
\* so in every state in which the game is started, the hands in play were dealt
\* to max_players players.
C13_StartGating ==
    /\ [](started => /\ Len(hand_order) = max_players
                     /\ Cardinality(DOMAIN player2cards) = max_players)
    /\ [][(emitted'.game_started # emitted.game_started \/ (~started /\ started'))
            => /\ Len(players) = max_players
               /\ \A i \in 1..Len(players) : players[i] \in ready
               /\ hand_order' = players]_vars

\* C13, witness: one pre-game countdown ended without a start, a player having
\* left meanwhile, and a later countdown has started the game.
C13_Witness ==
    /\ started
    /\ last.type = "start_game"
    /\ closed # {}
    /\ busy = EmptyDict
    /\ emitted.pre_game_countdown = 2
    /\ emitted.game_started = 1

\* C14: join.  add_player(c) adds c, not ready, when c is not present and fewer
\* than max_players players are joined; for a c that is present it returns
\* "Player already in game" and leaves the players and their ready flags as
\* they were; and never are more than max_players players joined.
C14_Join ==
    /\ [](Len(players) <= max_players /\ ready \subseteq Range(players))
    /\ [][last'.type = "add_player" => \A c \in Clients : AddPlayer(c) =>
            /\ (c \notin Range(players) /\ Len(players) < max_players)
                  => (players' = Append(players, c) /\ c \notin ready'
                      /\ ready' = ready)
            /\ c \in Range(players)
                  => /\ last'.status = "Player already in game"
                     /\ players' = players
                     /\ ready' = ready]_vars

\* C14, witness: a player that is joined and ready has sent add_player again,
\* with the game full.
C14_Witness ==
    /\ last.type = "add_player"
    /\ last.status = "Player already in game"
    /\ Len(players) = max_players
    /\ ready # {}

\* C15: a rejected join changes no state.  An add_player that is rejected, the
\* game being at capacity or the id being joined already, changes neither the
\* players nor the connection map: a client refused at capacity is no
\* recipient of broadcasts.
C15_RejectedJoin ==
    [][last'.type = "add_player" => \A c \in Clients :
          ( /\ c \in Range(players) \/ Len(players) >= max_players
            /\ AddPlayer(c) )
          => /\ players' = players
             /\ connections' = connections
             /\ (c \notin Range(players) =>
                    \A i \in 1..Len(broadcast(connections', "message", 0)) :
                       broadcast(connections', "message", 0)[i].to # c)]_vars

\* The deal_cards messages among msgs that went to player p.
DealCardsTo(msgs, p) ==
    {i \in 1..Len(msgs) : msgs[i].type = "deal_cards" /\ msgs[i].to = p}

\* The cards in the hands of the deal_cards messages among msgs.
DealtCards(msgs) ==
    LET total[i \in 0..Len(msgs)] ==
            IF i = 0 THEN 0
            ELSE total[i - 1]
                 + (IF msgs[i].type = "deal_cards" THEN Sum(msgs[i].data.cards) ELSE 0)
    IN  total[Len(msgs)]

\* max_players players are joined and all of them are ready.
FullAndReady == check_all_players_ready(players, ready)

\* C16: start liveness.  Once max_players players are joined and all ready, and
\* as long as no connection closes, game_started is eventually emitted; the step
\* that emits it sends every joined player one deal_cards message, the hands of
\* these messages holding 40 cards together; and it is the only step that deals
\* (deal_cards reaches a player exactly once).
C16_StartLiveness ==
    /\ (FullAndReady /\ closed = {}) ~> (Begun \/ closed # {})
    /\ [][(closed' = {} /\ emitted'.game_started # emitted.game_started) =>
            /\ \A p \in Range(players) : Cardinality(DealCardsTo(sent', p)) = 1
            /\ DealtCards(sent') = 40
            /\ emitted'.game_started = 1]_vars

\* C17: end liveness.  Once the game is started it eventually ends, the timer
\* ticking: started becomes false; the step that ends it resets the countdown to
\* timer_max and broadcasts game_ended; and game_ended is emitted exactly once.
C17_EndLiveness ==
    /\ started ~> ~started
    /\ [][(started /\ ~started') =>
            /\ countdown' = timer_max
            /\ emitted'.game_ended = emitted.game_ended + 1
            /\ \E i \in 1..Len(sent') : sent'[i].type = "game_ended"]_vars
    /\ [](emitted.game_ended <= 1)

\* The score of a dealt player in this state: the cards of the goal suit times
\* 10, plus the cash.
Score(p) == Held(player2cards, p, goal_suit) * 10 + player2cash[p]

\* The game_ended messages among the messages of the last step.
GameEnded == {i \in 1..Len(sent) : sent[i].type = "game_ended"}

\* C18: winner.  In every game_ended message the winner is a dealt player whose
\* score (goal-suit cards x 10 + cash) is the maximum over the dealt players,
\* winner_score is that maximum, the score reported for every dealt player is
\* its goal-suit cards x 10 + cash, and among the players with the top score
\* the winner is the first in join order (the players of Match join in the
\* order of their ids).
C18_Winner ==
    \A i \in GameEnded :
        LET data == sent[i].data
            dealt == DOMAIN player2cards
        IN  /\ data.winner \in dealt
            /\ data.winner_score = Score(data.winner)
            /\ \A p \in dealt : Score(p) <= data.winner_score
            /\ DOMAIN data.final_player_stats = dealt
            /\ \A p \in dealt : data.final_player_stats[p].score = Score(p)
            /\ \A p \in dealt : Score(p) = data.winner_score => data.winner <= p

\* A game has ended after a trade, a dealt player having left, and the winner
\* is not the first of the dealt players.
C18_Witness ==
    /\ GameEnded # {}
    /\ \E p \in DOMAIN player2cards : player2cash[p] # StartCash
    /\ \E p \in DOMAIN player2cards : p \notin Range(players)
    /\ \E i \in GameEnded : sent[i].data.winner # hand_order[1]

\* The fields of a message's data that tell a hand or the goal suit.
PrivateFields == {"player2cards", "goal_suit", "cards", "final_player_stats"}

\* The types of the messages whose data is a record.
RecordTypes == {"player_added", "player_ready", "game_started", "game_state", "deal_cards", "game_ended"}

\* C19: hidden information.  Of the messages a step sends, a game_state message
\* has neither a player2cards nor a goal_suit field; a deal_cards message goes
\* to the channel of a player, never to an observer, and the hand and cash it
\* carries are those of the player it goes to; and no message but deal_cards
\* and game_ended has a field that tells a hand or the goal suit.
C19_HiddenInformation ==
    \A i \in 1..Len(sent) :
        LET m == sent[i]
        IN  /\ m.type = "game_state" =>
                   DOMAIN m.data \cap {"player2cards", "goal_suit"} = {}
            /\ m.type = "deal_cards" =>
                   /\ m.to \in DOMAIN player2cards
                   /\ m.to \notin Range(ui_connections)
                   /\ m.data = [cards |-> player2cards[m.to], cash |-> player2cash[m.to]]
            /\ m.type \in RecordTypes \ {"deal_cards", "game_ended"} =>
                   DOMAIN m.data \cap PrivateFields = {}
            /\ m.type \notin RecordTypes =>
                   m.type \in {"message", "error", "add_order_processed",
                               "accept_order_processed"}

\* A deal has sent two players different hands while a connection that is no
\* player is open.
C19_Witness ==
    /\ connections \ Range(players) # {}
    /\ \E i, j \in 1..Len(sent) :
          /\ sent[i].type = "deal_cards" /\ sent[j].type = "deal_cards"
          /\ sent[i].to # sent[j].to
          /\ sent[i].data.cards # sent[j].data.cards

\* C20: per-recipient event order.  On every channel the messages arrive in the
\* order their events were emitted: of two messages a channel has received, the
\* one received first belongs to the event emitted first (or to the same event).
C20_EventOrder ==
    \A c \in DOMAIN inbox :
        \A i, j \in 1..Len(inbox[c]) :
            i < j => inbox[c][i].event <= inbox[c][j].event

\* C21: serialized command processing.  While a player_ready handler is inside
\* the pre-game countdown (busy is not empty), a step that is not a step of a
\* countdown (busy stays as it is), that is a command of another connection, a
\* disconnect or a tick, changes neither the players nor the order book, the
\* hands or the cash.
C21_Serialized ==
    [][(busy # EmptyDict /\ busy' = busy) =>
          UNCHANGED <<players, bids, asks, player2cards, player2cash>>]_vars

\* C22: disconnect during trading is local.  A step in which a connection
\* closes while the game is started takes the connection out of the connection
\* map and leaves the players (and the started game) as they are; and the game
\* ends only by a tick that brings the countdown to zero.
C22_LocalDisconnect ==
    [][/\ (started /\ closed' # closed) =>
              /\ connections' = connections \ closed'
              /\ players' = players
              /\ started'
       /\ (started /\ ~started') => countdown = 1]_vars

\* The transaction_processed messages among msgs that went to the channel ch
\* with the data rec.
Notified(msgs, ch, rec) ==
    {i \in 1..Len(msgs) :
        msgs[i].to = ch /\ msgs[i].type = "transaction_processed" /\ msgs[i].data = rec}

\* C23: trade notification.  A step that settles a trade (an auto-match or an
\* accept) of one card of suit from seller to buyer at a price above 0 sends every
\* connected player channel and every observer channel exactly one
\* transaction_processed message with {from: seller, to: buyer, suit, amount:
\* price}.
C23_TradeNotified ==
    [][(/\ OrderStep
        /\ last'.trade = "Trade executed successfully" \/ last'.status = "Order accepted"
        /\ \E pid \in DOMAIN player2cash :
              /\ player2cash'[pid] > player2cash[pid]
              /\ player2card_count'[pid] < player2card_count[pid]) =>
          \E seller_id, buyer_id \in Traders, suit \in OrderSuits, price \in Prices :
              /\ Settled(seller_id, buyer_id, suit, price)
              /\ \A ch \in connections \cup Range(ui_connections) :
                    Cardinality(Notified(sent', ch,
                                         transaction(seller_id, buyer_id, suit, price))) = 1]_vars

\* The resting orders of player q are the same in the next state.
OrdersKept(q) ==
    \A s \in Suits :
        /\ bids[s].player_id = q => bids'[s] = bids[s]
        /\ asks[s].player_id = q => asks'[s] = asks[s]

\* C24: fault isolation.  With no order booked at the price -1, a place_order
\* or accept_order step that ends in a fault sends one error message, to the channel of the sender and to no other;
\* the timer is as it was; and the hand, the cash and the resting orders of
\* every other player are as they were.
C24_FaultIsolation ==
    [][(/\ OrderStep /\ last'.status = "error"
        /\ \A s \in Suits : /\ bids[s].player_id # EmptyId => Resting(bids[s])
                            /\ asks[s].player_id # EmptyId => Resting(asks[s])) =>
          /\ Len(sent') = 1
          /\ sent'[1].type = "error"
          /\ UNCHANGED <<started, countdown, timers, countdown_task>>
          /\ \A q \in DOMAIN player2cash \ {sent'[1].to} :
                /\ player2cash'[q] = player2cash[q]
                /\ player2cards'[q] = player2cards[q]
                /\ OrdersKept(q)]_vars

\* An order that validation is to reject: its player_id is no joined player,
\* its suit none of the four suits, or its price negative.
Invalid(player_id, suit, price) ==
    player_id \notin Range(players) \/ suit \notin Suits \/ price < 0

\* C25: validation rejection leaves the state unchanged.  A place_order with a
\* player_id that is not joined, a suit that is none of the four or a negative
\* price (the sentinel -1 included), and an accept_order with such a player_id
\* or suit, leave the order book, the hands and the cash as they were.
C25_ValidationRejection ==
    [][/\ \A player_id \in Traders, suit \in OrderSuits, price \in Prices, is_bid \in BOOLEAN :
             (/\ last'.type = "place_order"
              /\ Invalid(player_id, suit, price)
              /\ PlaceOrder(player_id, suit, price, is_bid)) => GameUnchanged
       /\ \A player_id \in Traders, suit \in OrderSuits, is_bid \in BOOLEAN :
             (/\ last'.type = "accept_order"
              /\ Invalid(player_id, suit, 0)
              /\ AcceptOrder(player_id, suit, is_bid)) => GameUnchanged]_vars

\* The entries of the drawn distribution with the count n.
WithCount(n) == {i \in 1..Len(deal_suit2counts) : deal_suit2counts[i].count = n}

\* The count the drawn distribution gives the suit s.
CountOf(s) ==
    deal_suit2counts[CHOOSE i \in 1..Len(deal_suit2counts) : deal_suit2counts[i].suit = s].count

\* C26: deck composition.  A distribution drawn by get_suit_distribution names
\* each of the four suits once; its counts are a permutation of 8, 10, 10, 12
\* and sum to 40; the goal suit has 8 or 10 cards and the other suit of the
\* goal suit's colour has 12.
C26_DeckComposition ==
    deal_suit2counts # <<>> =>
        /\ Len(deal_suit2counts) = 4
        /\ {deal_suit2counts[i].suit : i \in 1..4} = Suits
        /\ Cardinality(WithCount(8)) = 1
        /\ Cardinality(WithCount(10)) = 2
        /\ Cardinality(WithCount(12)) = 1
        /\ CountOf("hearts") + CountOf("diamonds") + CountOf("clubs") + CountOf("spades") = 40
        /\ CountOf(goal_suit) \in {8, 10}
        /\ \A s \in Suits :
              (s # goal_suit /\ suit2colors[s] = suit2colors[goal_suit]) => CountOf(s) = 12

\* A distribution is drawn with 10 cards of the goal suit, a black one, the
\* suit with 8 cards being diamonds.
C26_Witness ==
    /\ deal_suit2counts # <<>>
    /\ goal_suit = "spades"
    /\ CountOf("spades") = 10
    /\ CountOf("diamonds") = 8

\* The cards of suit s among the cards i of the deck with i mod n = k, the
\* cards counted from 0.
EveryNth(k, n, s) ==
    Cardinality({i \in 1..Len(deal_all_cards) :
                    (i - 1) % n = k /\ deal_all_cards[i] = s})

\* C27: deal partition.  The hands distribute_cards deals from a deck to N >= 1
\* players give the player at position k (from 0) the cards i with i mod N = k;
\* for each suit the players' counts sum to the deck's count; the cards dealt
\* are as many as the deck's; and two hands differ in size by at most 1.
C27_DealPartition ==
    (deal_all_cards # <<>> /\ player2cards # EmptyDict) =>
        /\ DOMAIN player2cards = Range(players)
        /\ \A k \in 1..Len(players) : \A s \in Suits :
              Held(player2cards, players[k], s) = EveryNth(k - 1, Len(players), s)
        /\ \A s \in Suits : SuitTotal(player2cards, s) = Count(deal_all_cards, s)
        /\ SumOver([pid \in DOMAIN player2cards |-> Sum(player2cards[pid])],
                   DOMAIN player2cards) = Len(deal_all_cards)
        /\ \A p, q \in DOMAIN player2cards :
              Sum(player2cards[p]) - Sum(player2cards[q]) <= 1

\* Three players are dealt hands of different sizes, one of them without a
\* card of some suit.
C27_Witness ==
    /\ deal_all_cards # <<>>
    /\ Len(players) = 3
    /\ \E p, q \in DOMAIN player2cards : Sum(player2cards[p]) # Sum(player2cards[q])
    /\ \E p \in DOMAIN player2cards : DOMAIN player2cards[p] # Suits

\* The player_ready messages among msgs.
ReadyMessages(msgs) == {i \in 1..Len(msgs) : msgs[i].type = "player_ready"}

\* C28: readiness.  A player_ready command of a joined player c sets the flag
\* of c and no other flag, and player_ready is broadcast with the id of c; a
\* player_ready command of an id that is not joined changes neither the flags
\* nor the players, the game state or the order book, and no player_ready
\* message is sent.
C28_Readiness ==
    [][\A c \in Clients :
          (last'.type = "player_ready" /\ PlayerReady(c)) =>
              IF c \in Range(players)
              THEN /\ ready' = ready \cup {c}
                   /\ players' = players
                   /\ ReadyMessages(sent') # {}
                   /\ \A i \in ReadyMessages(sent') : sent'[i].data = [player_id |-> c]
              ELSE /\ ready' = ready
                   /\ UNCHANGED <<players, game_vars, book_vars>>
                   /\ ReadyMessages(sent') = {}]_vars

\* A client that is not joined has sent player_ready while a joined player was
\* ready.
C28_Witness ==
    /\ last.type = "player_ready"
    /\ sent = <<>>
    /\ ready # {}

\* The types of the messages sent with broadcast, and of those sent with
\* send_message.
BroadcastTypes == {"message", "player_added", "player_ready", "game_started",
                   "game_state", "game_ended", "transaction_processed"}
TargetedTypes == {"deal_cards", "add_order_processed", "accept_order_processed", "error"}

\* The observer channels.
Observers == Range(ui_connections)

\* The messages among msgs that answer an order command.
Replies(msgs) ==
    {i \in 1..Len(msgs) :
        msgs[i].type \in {"add_order_processed", "accept_order_processed", "error"}}

\* The reply to an order sent in the name of player_id went to the channel of
\* player_id and to no other, or nowhere when player_id has no channel.
RepliedTo(player_id) ==
    IF player_id \in connections
    THEN /\ Cardinality(Replies(sent')) = 1
         /\ \A i \in Replies(sent') : sent'[i].to = player_id
    ELSE sent' = <<>>

\* C29: delivery targets.  A message sent with broadcast reaches every channel
\* of the connection map and every observer channel once, and no other channel;
\* a message sent with send_message reaches only a channel of the connection
\* map, never an observer; the reply to an order goes to the channel of the
\* player the order names and to no other, and when that player has no channel
\* the command is handled to its end and nothing is sent.
C29_DeliveryTargets ==
    /\ [](\A i \in 1..Len(sent) :
            /\ sent[i].type \in BroadcastTypes \cup TargetedTypes
            /\ sent[i].type \in BroadcastTypes =>
                  /\ sent[i].to \in connections \cup Observers
                  /\ \A ch \in connections \cup Observers :
                        Cardinality({j \in 1..Len(sent) :
                                        /\ sent[j].to = ch
                                        /\ sent[j].type = sent[i].type
                                        /\ sent[j].data = sent[i].data}) = 1
            /\ sent[i].type \in TargetedTypes =>
                  sent[i].to \in connections \ Observers)
    /\ [][\A player_id \in Traders, suit \in MatchSuits, is_bid \in BOOLEAN :
            /\ \A price \in MatchPrices :
                  (last'.type = "place_order"
                     /\ PlaceOrder(player_id, suit, price, is_bid)) => RepliedTo(player_id)
            /\ (last'.type = "accept_order"
                  /\ AcceptOrder(player_id, suit, is_bid)) => RepliedTo(player_id)]_vars

\* An order was handled in the name of a player whose connection has closed:
\* its reply was dropped.
C29_Witness ==
    /\ last.type \in {"place_order", "accept_order"}
    /\ sent = <<>>
    /\ closed # {}

\* The order of the given price crosses the opposite side of the suit's book:
\* a bid at or above the resting ask, an ask at or below the resting bid.
Crosses(suit, price, is_bid) ==
    IF is_bid
    THEN Resting(asks[suit]) /\ price >= asks[suit].price
    ELSE Resting(bids[suit]) /\ price <= bids[suit].price

\* The order's own side of the suit's book in the game R that
\* process_add_order leaves is as it is now or has been cleared by the
\* settlement: the order was not written into it.
NotBooked(R, suit, is_bid) ==
    IF is_bid
    THEN R.bids[suit] \in {bids[suit], SampleRecord}
    ELSE R.asks[suit] \in {asks[suit], SampleRecord}

\* C30: crossing has priority over resting.  In every state the game reaches,
\* process_add_order on an order whose price meets the resting order of the
\* opposite side (bid >= resting ask, ask <= resting bid) does not write the
\* order into the book, whether or not it would improve the resting order of
\* its own side and whether or not the trade it attempts is settled.
C30_CrossingPriority ==
    \A player_id \in Traders, suit \in OrderSuits, price \in Prices, is_bid \in BOOLEAN :
       Crosses(suit, price, is_bid) =>
          \E r \in {process_add_order(GameOf, Order(player_id, suit, price, is_bid))} :
             /\ ~r.placed
             /\ NotBooked(r.G, suit, is_bid)

\* A bid has crossed the resting ask of the only suit with orders, its trade
\* was refused and the book stayed: the bid was above the resting bid of its
\* own side as well, and was not booked.
C30_Witness ==
    /\ last.type = "place_order"
    /\ last.is_bid
    /\ ~last.placed
    /\ last.trade \in {"Trade not executed, seller does not have enough cards",
                     "Trade not executed, buyer does not have enough cash"}
    /\ \E suit \in Suits :
          /\ Resting(asks[suit])
          /\ Resting(bids[suit])
          /\ bids[suit].price < asks[suit].price
          /\ \A other \in Suits \ {suit} :
                bids[other] = SampleRecord /\ asks[other] = SampleRecord

\* The player owns no order of the book.
OwnsNoOrder(player_id) ==
    \A s \in Suits : bids[s].player_id # player_id /\ asks[s].player_id # player_id

\* C31: truthful match status.  The add_order_processed status "Order matched
\* and executed" reaches the submitter of a place_order only when that command
\* settled a trade (execute_trade ran to its end); when execute_trade refuses
\* the trade of a crossing order (the seller holds no card of the suit, the
\* buyer's cash is below the price) hands, cash and book are as they were and
\* the status does not claim an execution.  Stated for a submitter who owns
\* no order of the book, whose order therefore crosses another player's.
C31_TruthfulStatus ==
    [][last'.type = "place_order" =>
          /\ \A i \in 1..Len(sent') :
                (/\ sent'[i].type = "add_order_processed"
                 /\ sent'[i].data = "Order matched and executed"
                 /\ OwnsNoOrder(sent'[i].to))
                => last'.trade = "Trade executed successfully"
          /\ last'.trade \in {"Trade not executed, seller does not have enough cards",
                              "Trade not executed, buyer does not have enough cash"}
             => GameUnchanged]_vars

\* The game R differs from the present one at most on `suit`: the bid and the
\* ask of every other suit, and every player's holding of every other suit
\* (the key's presence and its count), are as they are now.
OtherSuitsKept(R, suit) ==
    /\ R.bids = [bids EXCEPT ![suit] = R.bids[suit]]
    /\ R.asks = [asks EXCEPT ![suit] = R.asks[suit]]
    /\ DOMAIN R.player2cards = DOMAIN player2cards
    /\ \A pid \in DOMAIN player2cards :
          \/ R.player2cards[pid] = player2cards[pid]
          \/ /\ suit \in DOMAIN player2cards[pid]
             /\ R.player2cards[pid]
                   = [player2cards[pid] EXCEPT ![suit] = R.player2cards[pid][suit]]

\* C32: per-suit independence.  In every state in which a command is handled,
\* what process_add_order and process_accept_order leave for an order on the suit
\* s has the resting bid and the resting ask of every other suit, and every
\* player's count of every other suit, unchanged.
C32_SuitIndependence ==
    (started /\ ncmd < MaxCommands) =>
    \A player_id \in Traders, suit \in OrderSuits, is_bid \in BOOLEAN :
       /\ \A price \in Prices :
             \E r \in {process_add_order(GameOf, Order(player_id, suit, price, is_bid))} :
                OtherSuitsKept(r.G, suit)
       /\ \E r \in {process_accept_order(GameOf, Order(player_id, suit, -1, is_bid))} :
             OtherSuitsKept(r.G, suit)

\* A command has settled a trade, which emptied the book of its suit, while
\* an order rests on another suit.
C32_Witness ==
    /\ \/ last.type = "place_order" /\ last.trade = "Trade executed successfully"
       \/ last.type = "accept_order" /\ last.status = "Order accepted"
    /\ \E s \in Suits : Resting(bids[s]) \/ Resting(asks[s])
    /\ \E pid \in DOMAIN player2cash : player2cash[pid] > cash_per_player - cash_to_enter

\* A game has ended and none is running: game_ended has been emitted and
\* started is False.
Ended == emitted.game_ended > 0 /\ ~started

\* C33: tick loop cancellation.  At any time at most one countdown task is
\* alive; and once the game has ended, as long as no game is started again, no
\* step decrements the countdown or sends a game_state message.
C33_TickCancellation ==
    /\ [](Cardinality(timers) <= 1)
    /\ [][(Ended /\ ~started') =>
             /\ countdown' >= countdown
             /\ \A i \in 1..Len(sent') : sent'[i].type # "game_state"]_vars

\* The step is a tick of a countdown task while the game is started.
TradingTick == started /\ last'.type = "tick" /\ (\E t \in timers : Tick(t))

\* The game_state messages among msgs that go to the channel ch.
GameStates(msgs, ch) ==
    {i \in 1..Len(msgs) : msgs[i].type = "game_state" /\ msgs[i].to = ch}

C35_NonNegativeHoldings ==
    Begun =>
       /\ \A pid \in DOMAIN player2cards :
             \A s \in DOMAIN player2cards[pid] : player2cards[pid][s] >= 0
       /\ \A pid \in DOMAIN player2cash : player2cash[pid] >= 0

\* C36: no self-trade on the auto-match path.  When a place_order at a price
\* of 0 or more crosses the resting order of the other side and execute_trade
\* settles the trade, the resting order is another player's: seller and buyer
\* differ.
C36_NoSelfTrade ==
    [][(last'.type = "place_order" /\ last'.trade = "Trade executed successfully") =>
          \A player_id \in Traders, suit \in OrderSuits, price \in Prices \ {-1} :
             (/\ Crosses(suit, price, last'.is_bid)
              /\ PlaceOrder(player_id, suit, price, last'.is_bid))
             => (IF last'.is_bid THEN asks[suit] ELSE bids[suit]).player_id # player_id]_vars

\* C37: orders only while trading.  A place_order or accept_order handled
\* while the game is not started (in the lobby, during the pre-game countdown
\* or after the end) changes no resting order, hand or cash; and when the game
\* starts, the book is empty on every suit.
C37_OrdersOnlyWhileTrading ==
    [][/\ (~started /\ OrderStep) => GameUnchanged
       /\ (~started /\ started') => (bids' = EmptyBook /\ asks' = EmptyBook)]_vars

\* The cash and the hand of every player other than those of `parties` are as
\* they were.
OthersKept(parties) ==
    /\ \A q \in DOMAIN player2cash \ parties : player2cash'[q] = player2cash[q]
    /\ \A q \in DOMAIN player2cards \ parties : player2cards'[q] = player2cards[q]

\* C38: order attribution.  A place_order or accept_order received on the
\* connection of player c, whatever player_id its payload names, changes the
\* cash and the hand of no player but c and the owner of the resting order it
\* trades against, and an order it puts in the book is owned by c.
C38_OrderAttribution ==
    [][\A c \in Traders, player_id \in Traders, suit \in MatchSuits, is_bid \in BOOLEAN :
          /\ \A price \in MatchPrices :
                (/\ last'.type = "place_order"
                 /\ c \in connections
                 /\ PlaceOrderOn(c, player_id, suit, price, is_bid))
                => /\ OthersKept({c, Named(suit, ~is_bid).player_id})
                   /\ last'.placed => Named(suit, is_bid)'.player_id = c
          /\ (/\ last'.type = "accept_order"
              /\ c \in connections
              /\ AcceptOrderOn(c, player_id, suit, is_bid))
             => OthersKept({c, Named(suit, is_bid).player_id})]_vars

====
